---- MODULE Spec2Model ----
(***************************************************************************)
(* A model of the file organizer (src/file_organizer): the Learning Store, *)
(* the Metadata Processor, the Organization Engine, the File Scanner, the  *)
(* Cleanup Engine and the pipeline of main.py that sequences them.         *)
(*                                                                         *)
(* Paths are records [dir, name]: dir is the sequence of directory names   *)
(* below root (<<>> is root itself) and name is <<stem, suffix>>.          *)
(* Confidence scores and boosts are the integers the code's floats take.   *)
(***************************************************************************)
EXTENDS Integers, Sequences, FiniteSets, TLC

VARIABLES
    env,          \* the optional backends that imported: subset of {"magic","tika","tfidf"}
    prof,         \* file id -> what the external collaborators return for its content
    fs,           \* the files on disk: path -> file id
    dirs,         \* the directories on disk below root
    stateFile,    \* the learning state file on disk
    threshold,    \* CommandContext.confidence_threshold
    pc,           \* position in run_pipeline (or in the call under check)
    run,          \* number of the pipeline run
    store,        \* the LearningStore instance in memory
    scanned,      \* ScanCommand.files
    file_objects, \* ProcessCommand.file_objects / the batch given to organize_files
    idx,          \* loop index of the current stage
    summary,      \* organize_files' summary dict
    faults,       \* I/O failures the environment has injected so far
    raised,       \* the operation an exception escaped from ("" when none)
    moves,        \* history: the physical moves shutil.move performed
    updated,      \* history: the records of this run LearningStore.update counted
    ids,          \* history: the file id found at each scanned path
    routed,       \* history: destination_dir of each record organize_files handled
    call,         \* the last Learning Store API call, its result, and the update
                  \* call it directly followed, if any
    cleanup,      \* remove_empty_directories' locals, the permissions of the
                  \* directories, and the tree the call started on
    stages,       \* history: the stages this run has completed, in order
    primaries,    \* history: file id -> the primary label process_file gave it in each run
    scan          \* FileScanner.scan's arguments and locals while a call is under check

vars == <<env, prof, fs, dirs, stateFile, threshold, pc, run, store, scanned,
          file_objects, idx, summary, faults, raised, moves, updated, ids, routed,
          call, cleanup, stages, primaries, scan>>

----------------------------------------------------------------------------
(* Bounds of the model *)

MaxFiles == 2
MaxRuns == 2
MaxFaults == 1
MaxCount == 2
MaxUpdates == 1
MaxLoopRuns == 3

----------------------------------------------------------------------------
(* Strings: str.lower() and str.title() on the strings the model uses *)

LowerOf ==
    ("Design" :> "design") @@ (".PNG" :> ".png") @@ ("Notes" :> "notes")
    @@ (".PY" :> ".py")

Lower(s) == IF s \in DOMAIN LowerOf THEN LowerOf[s] ELSE s

TitleOf ==
    ("report" :> "Report") @@ ("photo" :> "Photo") @@ ("design" :> "Design")
    @@ ("project" :> "Project") @@ ("notes" :> "Notes")
    @@ ("uncategorized" :> "Uncategorized") @@ ("Design" :> "Design")
    @@ ("x/../../../outside" :> "X/../../../Outside")

Title(s) == IF s \in DOMAIN TitleOf THEN TitleOf[s] ELSE s

\* the segments pathlib splits a string into when it is joined to a path
PartsOf == ("X/../../../Outside" :> <<"X", "..", "..", "..", "Outside">>)

Parts(s) == IF s \in DOMAIN PartsOf THEN PartsOf[s] ELSE <<s>>

Min(a, b) == IF a < b THEN a ELSE b
Max(a, b) == IF a > b THEN a ELSE b

Take(s, n) == SubSeq(s, 1, Min(n, Len(s)))

Range(s) == {s[k] : k \in 1..Len(s)}

Suffix(path) == Lower(path.name[2])

----------------------------------------------------------------------------
(* Python dicts keep insertion order: a label table is a sequence of       *)
(* [label, count] entries in insertion order.                              *)

DictHas(d, label) == \E k \in 1..Len(d) : d[k].label = label

DictGet(d, label) ==
    IF DictHas(d, label)
    THEN d[CHOOSE k \in 1..Len(d) : d[k].label = label].count
    ELSE 0

DictSet(d, label, n) ==
    IF DictHas(d, label)
    THEN [k \in 1..Len(d) |->
            IF d[k].label = label THEN [label |-> label, count |-> n] ELSE d[k]]
    ELSE Append(d, [label |-> label, count |-> n])

TableGet(t, key) == IF key \in DOMAIN t THEN t[key] ELSE <<>>

TableSet(t, key, d) == [k \in DOMAIN t \cup {key} |-> IF k = key THEN d ELSE t[k]]

EmptyTable == [k \in {} |-> <<>>]

EmptyStore == [extension_labels |-> EmptyTable, mime_labels |-> EmptyTable]

RECURSIVE MergeCounts(_, _)
MergeCounts(candidates, items) ==
    IF items = <<>> THEN candidates
    ELSE MergeCounts(
            DictSet(candidates, Head(items).label,
                    DictGet(candidates, Head(items).label) + Head(items).count),
            Tail(items))

InsertDesc(sorted, e) ==
    LET before == {k \in 1..Len(sorted) : sorted[k].count >= e.count}
        n == Cardinality(before)
    IN  SubSeq(sorted, 1, n) \o <<e>> \o SubSeq(sorted, n + 1, Len(sorted))

RECURSIVE SortedDesc(_)
SortedDesc(d) ==
    IF d = <<>> THEN <<>>
    ELSE InsertDesc(SortedDesc(SubSeq(d, 1, Len(d) - 1)), d[Len(d)])

LabelsOf(d) == [k \in 1..Len(d) |-> d[k].label]

DefaultLimit == 3

Reverse(q) == [k \in 1..Len(q) |-> q[Len(q) + 1 - k]]

\* suggest_labels without lines 68-69, the counts of the MIME type
suggest_labels_extension_only(st, file_object, limit) ==
    LET candidates ==
            MergeCounts(<<>>, TableGet(st.extension_labels, Suffix(file_object.path)))
        sorted_labels == SortedDesc(candidates)
    IN  IF candidates = <<>>
        THEN [labels |-> <<>>, boost |-> 0]
        ELSE [labels |-> Take(LabelsOf(sorted_labels), limit),
              boost |-> Min(20, sorted_labels[1].count * 2)]

\* suggest_labels with the sort's reverse=True left out
suggest_labels_ascending(st, file_object, limit) ==
    LET candidates ==
            MergeCounts(MergeCounts(<<>>, TableGet(st.extension_labels,
                                                   Suffix(file_object.path))),
                        TableGet(st.mime_labels, file_object.mime_type))
        sorted_labels == Reverse(SortedDesc(candidates))
    IN  IF candidates = <<>>
        THEN [labels |-> <<>>, boost |-> 0]
        ELSE [labels |-> Take(LabelsOf(sorted_labels), limit),
              boost |-> Min(20, sorted_labels[1].count * 2)]

suggest_labels(st, file_object, limit) ==
    LET extension == Suffix(file_object.path)
        mime_type == file_object.mime_type
        candidates ==
            MergeCounts(MergeCounts(<<>>, TableGet(st.extension_labels, extension)),
                        TableGet(st.mime_labels, mime_type))
        sorted_labels == SortedDesc(candidates)
    IN  IF candidates = <<>>
        THEN [labels |-> <<>>, boost |-> 0]
        ELSE [labels |-> Take(LabelsOf(sorted_labels), limit),
              boost |-> Min(20, sorted_labels[1].count * 2)]

\* lines 91-99 for one label
Bump(st, extension, mime_type, label) ==
    LET e == TableGet(st.extension_labels, extension)
        m == TableGet(st.mime_labels, mime_type)
    IN  [extension_labels |->
            TableSet(st.extension_labels, extension,
                     DictSet(e, label, DictGet(e, label) + 1)),
         mime_labels |->
            TableSet(st.mime_labels, mime_type,
                     DictSet(m, label, DictGet(m, label) + 1))]

\* update storing 1 where lines 92-99 add 1
update_overwriting(st, file_object) ==
    IF file_object.labels = <<>> THEN st
    ELSE
        LET extension == Suffix(file_object.path)
            mime_type == file_object.mime_type
            primary_label == Lower(file_object.labels[1])
        IN  [extension_labels |->
                TableSet(st.extension_labels, extension,
                         DictSet(TableGet(st.extension_labels, extension),
                                 primary_label, 1)),
             mime_labels |->
                TableSet(st.mime_labels, mime_type,
                         DictSet(TableGet(st.mime_labels, mime_type),
                                 primary_label, 1))]

\* update recording the second label of the record as well
update_all_labels(st, file_object) ==
    IF file_object.labels = <<>> THEN st
    ELSE
        LET extension == Suffix(file_object.path)
            mime_type == file_object.mime_type
            first == Bump(st, extension, mime_type, Lower(file_object.labels[1]))
        IN  IF Len(file_object.labels) > 1
            THEN Bump(first, extension, mime_type, Lower(file_object.labels[2]))
            ELSE first

update(st, file_object) ==
    IF file_object.labels = <<>> THEN st
    ELSE
        LET extension == Suffix(file_object.path)
            mime_type == file_object.mime_type
            primary_label == Lower(file_object.labels[1])
            e == TableGet(st.extension_labels, extension)
            m == TableGet(st.mime_labels, mime_type)
        IN  [extension_labels |->
                TableSet(st.extension_labels, extension,
                         DictSet(e, primary_label, DictGet(e, primary_label) + 1)),
             mime_labels |->
                TableSet(st.mime_labels, mime_type,
                         DictSet(m, primary_label, DictGet(m, primary_label) + 1))]

----------------------------------------------------------------------------
(* The Metadata Processor (engines/metadata_processor.py).  What the       *)
(* external backends answer for a file is the file's profile, prof[id]:    *)
(*   magic_mime, magic_fails : python-magic's answer, or that it raises    *)
(*   tika_meta, tika_fails   : tika's metadata (<<key, value>> pairs, keys *)
(*                             lower-cased), or that tika raises           *)
(*   content                 : the words of the extracted text             *)
(*   readable                : whether read_text succeeds                  *)
(*   tfidf_terms, tfidf_mean : the vectorizer's feature names and the mean *)
(*                             weight times 1000 (no terms: it raises)     *)

ESSENTIAL_METADATA_KEYS == {"title", "author", "created"}

GuessOf ==
    (".txt" :> "text/plain") @@ (".png" :> "image/png") @@ (".jpg" :> "image/jpeg")
    @@ (".jpeg" :> "image/jpeg") @@ (".py" :> "text/x-python")

\* mimetypes.guess_type(name)[0] or "application/octet-stream"
GuessType(path) ==
    IF Suffix(path) \in DOMAIN GuessOf THEN GuessOf[Suffix(path)]
    ELSE "application/octet-stream"

StartsWith(mime, prefix) ==
    CASE prefix = "image/" -> mime \in {"image/png", "image/jpeg"}
      [] prefix = "video/" -> mime \in {"video/mp4"}
      [] prefix = "audio/" -> mime \in {"audio/mpeg"}
      [] prefix = "text/"  -> mime \in {"text/plain", "text/x-python"}
      [] OTHER -> FALSE

\* [raised, value]: the MIME type, or that the detector's exception escapes
detect_mime_type(path, p, e) ==
    IF "magic" \in e
    THEN IF p.magic_fails THEN [raised |-> TRUE, value |-> ""]
         ELSE [raised |-> FALSE, value |-> p.magic_mime]
    ELSE [raised |-> FALSE, value |-> GuessType(path)]

\* DefaultStrategy.extract: [raised, metadata, content]
extract_metadata(p, e) ==
    IF "tika" \in e
    THEN IF p.tika_fails
         THEN [raised |-> TRUE, metadata |-> <<>>, content |-> <<>>]
         ELSE [raised |-> FALSE,
               metadata |-> SelectSeq(p.tika_meta, LAMBDA kv : kv[2] # ""),
               content |-> p.content]
    ELSE [raised |-> FALSE, metadata |-> <<>>,
          content |-> IF p.readable THEN p.content ELSE <<>>]

MetaGet(metadata, key) ==
    IF \E k \in 1..Len(metadata) : metadata[k][1] = key
    THEN metadata[CHOOSE k \in 1..Len(metadata) : metadata[k][1] = key][2]
    ELSE ""

validate_filename(path, metadata) ==
    LET title == MetaGet(metadata, "title")
    IN  IF title = "" THEN TRUE
        ELSE Lower(path.name[1]) = Lower(title)

RECURSIVE CountWords(_, _)
CountWords(frequency, words) ==
    IF words = <<>> THEN frequency
    ELSE CountWords(DictSet(frequency, Head(words), DictGet(frequency, Head(words)) + 1),
                    Tail(words))

\* [raised, labels, confidence]
generate_labels(content, metadata, p, e) ==
    LET essential == SelectSeq(metadata,
                        LAMBDA kv : kv[1] \in ESSENTIAL_METADATA_KEYS /\ kv[2] # "")
        metadata_labels == [k \in 1..Len(essential) |-> Lower(essential[k][2])]
        lowered == [k \in 1..Len(content) |-> Lower(content[k])]
        words == SelectSeq(lowered, LAMBDA w : Len(w) > 3)
        labels == Take(LabelsOf(SortedDesc(CountWords(<<>>, words))), 5)
    IN  IF metadata_labels # <<>>
        THEN [raised |-> FALSE, labels |-> Take(metadata_labels, 5), confidence |-> 90]
        ELSE IF content = <<>>
        THEN [raised |-> FALSE, labels |-> <<>>, confidence |-> 0]
        ELSE IF "tfidf" \in e
        THEN IF p.tfidf_terms = <<>>
             THEN [raised |-> TRUE, labels |-> <<>>, confidence |-> 0]
             ELSE [raised |-> FALSE, labels |-> Take(p.tfidf_terms, 5),
                   confidence |-> Min(100, p.tfidf_mean)]
        ELSE [raised |-> FALSE, labels |-> labels,
              confidence |-> IF labels # <<>> THEN Min(100, 50 + Len(labels) * 10) ELSE 0]

image_extensions == {".jpg", ".jpeg", ".png", ".gif", ".bmp", ".webp"}

NewFileObject(path, mime) ==
    [path |-> path, mime_type |-> mime, metadata |-> <<>>, labels |-> <<>>,
     confidence_score |-> 0, is_consistent |-> TRUE, target_path |-> <<>>,
     errors |-> <<>>]

\* lines 206-210 without the max of line 210: the confidence is not raised
MediaOverride_label_only(fo, g) ==
    LET isImage == StartsWith(fo.mime_type, "image/") \/ Suffix(fo.path) \in image_extensions
        l1 == IF isImage /\ g.labels = <<>> THEN <<"photo">> ELSE g.labels
        isVideo == l1 = <<>> /\ StartsWith(fo.mime_type, "video/")
        l2 == IF isVideo THEN <<"video">> ELSE l1
        c2 == IF isVideo THEN 85 ELSE g.confidence
        isAudio == l2 = <<>> /\ StartsWith(fo.mime_type, "audio/")
    IN  [labels |-> IF isAudio THEN <<"audio">> ELSE l2,
         confidence |-> IF isAudio THEN 85 ELSE c2]

\* the media overrides of process_file, lines 206-216
MediaOverride(fo, g) ==
    LET isImage == StartsWith(fo.mime_type, "image/") \/ Suffix(fo.path) \in image_extensions
        l1 == IF isImage /\ g.labels = <<>> THEN <<"photo">> ELSE g.labels
        c1 == IF isImage THEN Max(g.confidence, 85) ELSE g.confidence
        isVideo == l1 = <<>> /\ StartsWith(fo.mime_type, "video/")
        l2 == IF isVideo THEN <<"video">> ELSE l1
        c2 == IF isVideo THEN 85 ELSE c1
        isAudio == l2 = <<>> /\ StartsWith(fo.mime_type, "audio/")
    IN  [labels |-> IF isAudio THEN <<"audio">> ELSE l2,
         confidence |-> IF isAudio THEN 85 ELSE c2]

\* lines 217-221 without the replacement of line 221: only the boost is applied
LearningAugment_boost_only(fo, lc, st) ==
    LET s == suggest_labels(st, fo, DefaultLimit)
    IN  IF s.labels # <<>>
        THEN [labels |-> lc.labels,
              confidence |-> Min(100, lc.confidence + s.boost)]
        ELSE lc

\* lines 217-222 with the test of line 220 left out: any suggestion replaces
\* the labels
LearningAugment_always_replacing(fo, lc, st) ==
    LET s == suggest_labels(st, fo, DefaultLimit)
    IN  IF s.labels # <<>>
        THEN [labels |-> s.labels,
              confidence |-> Min(100, lc.confidence + s.boost)]
        ELSE lc

\* lines 217-222 without the min of line 222: the boost is added uncapped
LearningAugment_uncapped(fo, lc, st) ==
    LET s == suggest_labels(st, fo, DefaultLimit)
    IN  IF s.labels # <<>>
        THEN [labels |-> IF lc.labels = <<>>
                            \/ lc.labels \in {<<"photo">>, <<"video">>, <<"audio">>}
                         THEN s.labels ELSE lc.labels,
              confidence |-> lc.confidence + s.boost]
        ELSE lc

\* the learning augmentation of process_file, lines 217-231
LearningAugment(fo, lc, st) ==
    LET s == suggest_labels(st, fo, DefaultLimit)
    IN  IF s.labels # <<>>
        THEN [labels |-> IF lc.labels = <<>>
                            \/ lc.labels \in {<<"photo">>, <<"video">>, <<"audio">>}
                         THEN s.labels ELSE lc.labels,
              confidence |-> Min(100, lc.confidence + s.boost)]
        ELSE lc

\* [raised, obj]: raised when an exception escapes process_file
process_file(path, p, st, e) ==
    LET mime == detect_mime_type(path, p, e)
        fo0 == NewFileObject(path, mime.value)
        result == extract_metadata(p, e)
        fo1 == [fo0 EXCEPT !.metadata = result.metadata,
                           !.is_consistent = validate_filename(path, result.metadata)]
        g == generate_labels(result.content, result.metadata, p, e)
        lc == LearningAugment(fo1, MediaOverride(fo1, g), st)
    IN  IF mime.raised THEN [raised |-> TRUE, obj |-> fo0]
        ELSE IF result.raised
        THEN [raised |-> FALSE, obj |-> [fo0 EXCEPT !.errors = <<"extract_metadata">>]]
        ELSE IF g.raised
        THEN [raised |-> FALSE, obj |-> [fo1 EXCEPT !.errors = <<"generate_labels">>]]
        ELSE [raised |-> FALSE,
              obj |-> [fo1 EXCEPT !.labels = lc.labels,
                                  !.confidence_score = lc.confidence]]

----------------------------------------------------------------------------
(* The Organization Engine (engines/organization_engine.py) *)

CONFIDENCE_THRESHOLD == 70

STAGING_DIR_NAME == "_UNKNOWN_NEEDS_REVIEW"

staging_root == <<STAGING_DIR_NAME>>

code_extensions == {".py", ".js", ".ts", ".java", ".go", ".rb"}

\* determine_category with the test of line 57 before the test of line 55
determine_category_text_first(file_object) ==
    LET mime_type == file_object.mime_type
        label == IF file_object.labels # <<>> THEN file_object.labels[1]
                 ELSE "uncategorized"
        extension == Suffix(file_object.path)
    IN  IF StartsWith(mime_type, "image/") THEN <<"Media", "Photos">>
        ELSE IF StartsWith(mime_type, "video/") THEN <<"Media", "Videos">>
        ELSE IF StartsWith(mime_type, "audio/") THEN <<"Media", "Audio">>
        ELSE IF mime_type \in {"application/pdf"} THEN <<"Documents", "PDFs">>
        ELSE IF StartsWith(mime_type, "text/") THEN <<"Documents", "Text">>
        ELSE IF extension \in code_extensions THEN <<"Code", "Scripts">>
        ELSE <<"Documents">> \o Parts(Title(label))

\* the category directory, relative to root
determine_category(file_object) ==
    LET mime_type == file_object.mime_type
        label == IF file_object.labels # <<>> THEN file_object.labels[1]
                 ELSE "uncategorized"
        extension == Suffix(file_object.path)
    IN  IF StartsWith(mime_type, "image/") THEN <<"Media", "Photos">>
        ELSE IF StartsWith(mime_type, "video/") THEN <<"Media", "Videos">>
        ELSE IF StartsWith(mime_type, "audio/") THEN <<"Media", "Audio">>
        ELSE IF mime_type \in {"application/pdf"} THEN <<"Documents", "PDFs">>
        ELSE IF extension \in code_extensions THEN <<"Code", "Scripts">>
        ELSE IF StartsWith(mime_type, "text/") THEN <<"Documents", "Text">>
        ELSE <<"Documents">> \o Parts(Title(label))

\* line 77 without the test of file_object.errors
IsStaged_ignoring_errors(file_object, thr) ==
    file_object.confidence_score < thr

\* line 77 with <= for <
IsStaged_at_threshold(file_object, thr) ==
    file_object.errors # <<>> \/ file_object.confidence_score <= thr

\* line 77: the record goes to staging
IsStaged(file_object, thr) ==
    file_object.errors # <<>> \/ file_object.confidence_score < thr

\* lines 77-84: the directory the record is routed to
DestinationDir(file_object, thr) ==
    IF IsStaged(file_object, thr) THEN staging_root
    ELSE determine_category(file_object)

\* line 87
Destination(file_object, thr) ==
    [dir |-> DestinationDir(file_object, thr), name |-> file_object.path.name]

\* lines 79 and 84: the summary after routing the record
Counted(sm, file_object, thr) ==
    IF IsStaged(file_object, thr)
    THEN [sm EXCEPT !.staged = @ + 1]
    ELSE [sm EXCEPT !.moved = @ + 1]

\* Path.mkdir(parents=True): the directory and its ancestors below root
WithParents(d) == {SubSeq(d, 1, k) : k \in 1..Len(d)}

\* shutil.move(src, dst) of a file onto a file path: dst is replaced
MoveFile(files, src, dst) ==
    [q \in (DOMAIN files \ {src}) \cup {dst} |-> IF q = dst THEN files[src] ELSE files[q]]

Cur == file_objects[idx]

\* lines 72-74: the summary is zeroed and the staging directory is created
OrganizeStart ==
    /\ pc = "organize_start"
    /\ summary' = [moved |-> 0, staged |-> 0]
    /\ routed' = <<>>
    /\ dirs' = dirs \cup WithParents(staging_root)
    /\ idx' = 1
    /\ pc' = "organize"
    /\ UNCHANGED <<scan, primaries, stages, cleanup, env, prof, fs, stateFile, threshold, run, store, scanned,
                   file_objects, faults, raised, moves, updated, ids, call>>

\* lines 77-90: the record is already at its destination
OrganizeSkip ==
    /\ pc = "organize" /\ idx <= Len(file_objects)
    /\ Destination(Cur, threshold) = Cur.path
    /\ summary' = Counted(summary, Cur, threshold)
    /\ routed' = Append(routed, DestinationDir(Cur, threshold))
    /\ dirs' = dirs \cup WithParents(DestinationDir(Cur, threshold))
    /\ idx' = idx + 1
    /\ UNCHANGED <<scan, primaries, stages, cleanup, env, prof, fs, stateFile, threshold, pc, run, store, scanned,
                   file_objects, faults, raised, moves, updated, ids, call>>

\* lines 77-94: the record's file is moved and target_path is set
OrganizeMove ==
    /\ pc = "organize" /\ idx <= Len(file_objects)
    /\ Destination(Cur, threshold) # Cur.path
    /\ Cur.path \in DOMAIN fs
    /\ summary' = Counted(summary, Cur, threshold)
    /\ routed' = Append(routed, DestinationDir(Cur, threshold))
    /\ dirs' = dirs \cup WithParents(DestinationDir(Cur, threshold))
    /\ fs' = MoveFile(fs, Cur.path, Destination(Cur, threshold))
    /\ file_objects' =
          [file_objects EXCEPT ![idx].target_path = <<Destination(Cur, threshold)>>]
    /\ moves' = Append(moves, [run |-> run, rec |-> idx, id |-> fs[Cur.path],
                               src |-> Cur.path, dst |-> Destination(Cur, threshold)])
    /\ idx' = idx + 1
    /\ UNCHANGED <<scan, primaries, stages, cleanup, env, prof, stateFile, threshold, pc, run, store, scanned,
                   faults, raised, updated, ids, call>>

\* lines 95-98: shutil.move raises (PermissionError, or any other exception);
\* the failure is logged and the loop goes on
OrganizeMoveFails ==
    /\ pc = "organize" /\ idx <= Len(file_objects)
    /\ Destination(Cur, threshold) # Cur.path
    /\ Cur.path \in DOMAIN fs
    /\ faults < MaxFaults
    /\ faults' = faults + 1
    /\ summary' = Counted(summary, Cur, threshold)
    /\ routed' = Append(routed, DestinationDir(Cur, threshold))
    /\ dirs' = dirs \cup WithParents(DestinationDir(Cur, threshold))
    /\ idx' = idx + 1
    /\ UNCHANGED <<scan, primaries, stages, cleanup, env, prof, fs, stateFile, threshold, pc, run, store, scanned,
                   file_objects, raised, moves, updated, ids, call>>

\* line 86: destination_dir.mkdir raises, outside any try: organize_files raises
OrganizeMkdirFails ==
    /\ pc = "organize" /\ idx <= Len(file_objects)
    /\ DestinationDir(Cur, threshold) \notin dirs
    /\ faults < MaxFaults
    /\ faults' = faults + 1
    /\ summary' = Counted(summary, Cur, threshold)
    /\ routed' = Append(routed, DestinationDir(Cur, threshold))
    /\ raised' = "organize_files"
    /\ pc' = "crashed"
    /\ UNCHANGED <<scan, primaries, stages, cleanup, env, prof, fs, dirs, stateFile, threshold, run, store, scanned,
                   file_objects, idx, moves, updated, ids, call>>

\* line 99: the loop is over and the summary is returned
OrganizeReturn ==
    /\ pc = "organize" /\ idx > Len(file_objects)
    /\ idx' = 1
    /\ pc' = "update"
    /\ stages' = Append(stages, "organize")
    /\ UNCHANGED <<scan, primaries, cleanup, env, prof, fs, dirs, stateFile, threshold, run, store, scanned,
                   file_objects, summary, faults, raised, moves, updated, ids, routed, call>>

organize_files ==
    \/ OrganizeStart
    \/ OrganizeSkip
    \/ OrganizeMove
    \/ OrganizeMoveFails
    \/ OrganizeMkdirFails
    \/ OrganizeReturn

----------------------------------------------------------------------------
(* The Cleanup Engine and the File Scanner *)

HasFile(files, d) == \E q \in DOMAIN files : q.dir = d

HasSubdir(ds, d) == \E c \in ds : Len(c) = Len(d) + 1 /\ SubSeq(c, 1, Len(d)) = d

\* cleanup_engine.py lines 26-42: the directories left by the deepest-first sweep
RECURSIVE Sweep(_, _, _)
Sweep(ds, files, depth) ==
    IF depth = 0 THEN ds
    ELSE Sweep(ds \ {d \in ds : Len(d) = depth /\ ~HasFile(files, d) /\ ~HasSubdir(ds, d)},
               files, depth - 1)

MaxDepth(ds) == IF ds = {} THEN 0 ELSE CHOOSE n \in {Len(d) : d \in ds} :
                                          \A d \in ds : Len(d) <= n

remove_empty_directories(ds, files) == Sweep(ds, files, MaxDepth(ds))

IsUnder(d, anc) == Len(d) >= Len(anc) /\ SubSeq(d, 1, Len(anc)) = anc

\* Path.resolve() of a path below root on a tree without symbolic links: the
\* ".." segments are folded (one that leaves root stays in front)
RECURSIVE Resolve(_)
Resolve(d) ==
    IF d = <<>> THEN <<>>
    ELSE LET r == Resolve(SubSeq(d, 1, Len(d) - 1))
             s == d[Len(d)]
         IN  IF s = ".."
             THEN IF r # <<>> /\ r[Len(r)] # ".." THEN SubSeq(r, 1, Len(r) - 1)
                  ELSE Append(r, "..")
             ELSE Append(r, s)

\* path.parents, from the directory of the file up to root
Parents(q) == {SubSeq(q.dir, 1, k) : k \in 0..Len(q.dir)}

\* str.startswith("cleanup_report_") on the stems the model uses
StartsWithReport(stem) ==
    stem \in {"cleanup_report_20261102_174749", "cleanup_report_1"}

LEARNING_STATE_FILENAME == <<".file_organizer_learning", ".json">>

\* lines 27-32 with line 27 testing path.parent only
Skipped_parent_only(q, excluded) ==
    \/ Resolve(q.dir) \in excluded
    \/ StartsWithReport(q.name[1]) /\ q.name[2] = ".log"
    \/ q.name = LEARNING_STATE_FILENAME

\* lines 27-32 with line 27 left out
Skipped_nothing_excluded(q, excluded) ==
    \/ StartsWithReport(q.name[1]) /\ q.name[2] = ".log"
    \/ q.name = LEARNING_STATE_FILENAME

\* file_scanner.py lines 27-32: the three tests that skip a file
Skipped(q, excluded) ==
    \/ \E parent \in Parents(q) : Resolve(parent) \in excluded
    \/ StartsWithReport(q.name[1]) /\ q.name[2] = ".log"
    \/ q.name = LEARNING_STATE_FILENAME

\* file_scanner.py lines 22-33: the paths scan returns (in some order)
Scannable(files, exclude_dirs) ==
    {q \in DOMAIN files : ~Skipped(q, {Resolve(x) : x \in exclude_dirs})}

Orderings(S) ==
    {s \in [1..Cardinality(S) -> S] : \A a, b \in 1..Cardinality(S) : s[a] = s[b] => a = b}

----------------------------------------------------------------------------
(* The pipeline: run_pipeline and the commands of main.py *)

\* LearningStore.load, learning.py lines 30-36: [raised, value]
load(file) ==
    IF file.kind = "missing" THEN [raised |-> FALSE, value |-> EmptyStore]
    ELSE IF file.kind # "object" THEN [raised |-> TRUE, value |-> EmptyStore]
    ELSE [raised |-> FALSE,
          value |-> [extension_labels |->
                        IF "extension_labels" \in DOMAIN file.data
                        THEN file.data["extension_labels"] ELSE EmptyTable,
                     mime_labels |->
                        IF "mime_labels" \in DOMAIN file.data
                        THEN file.data["mime_labels"] ELSE EmptyTable]]

\* LearningStore.save, learning.py lines 45-50: the file written
save(st) ==
    [kind |-> "object",
     data |-> ("extension_labels" :> st.extension_labels)
              @@ ("mime_labels" :> st.mime_labels)]

\* main.py line 162
LoadStep ==
    /\ pc = "load"
    /\ IF load(stateFile).raised
       THEN /\ raised' = "LearningStore.load"
            /\ pc' = "crashed"
            /\ store' = store
       ELSE /\ store' = load(stateFile).value
            /\ pc' = "cleanup"
            /\ raised' = raised
    /\ stages' = IF load(stateFile).raised THEN stages ELSE Append(stages, "load")
    /\ UNCHANGED <<scan, primaries, cleanup, env, prof, fs, dirs, stateFile, threshold, run, scanned,
                   file_objects, idx, summary, faults, moves, updated, ids, routed, call>>

\* main.py lines 173-174: CleanupCommand.execute
CleanupStep ==
    /\ pc = "cleanup"
    /\ dirs' = remove_empty_directories(dirs, fs)
    /\ pc' = "scan"
    /\ stages' = Append(stages, "cleanup")
    /\ UNCHANGED <<scan, primaries, cleanup, env, prof, fs, stateFile, threshold, run, store, scanned,
                   file_objects, idx, summary, faults, raised, moves, updated, ids,
                   routed, call>>

\* main.py lines 176-177: ScanCommand.execute; rglob's order is the file system's
ScanStep ==
    /\ pc = "scan"
    /\ \E order \in Orderings(Scannable(fs, {staging_root})) :
          /\ scanned' = order
          /\ ids' = [k \in 1..Len(order) |-> fs[order[k]]]
    /\ file_objects' = <<>>
    /\ idx' = 1
    /\ pc' = "process"
    /\ stages' = Append(stages, "scan")
    /\ UNCHANGED <<scan, primaries, cleanup, env, prof, fs, dirs, stateFile, threshold, run, store, summary,
                   faults, raised, moves, updated, routed, call>>

\* the label LearningStore.update would count for the record ("" when none)
Primary(file_object) ==
    IF file_object.labels = <<>> THEN "" ELSE Lower(file_object.labels[1])

\* ProcessCommand.execute counting each record in the Learning Store as soon as
\* it is processed
ProcessStep_learning ==
    /\ pc = "process" /\ idx <= Len(scanned)
    /\ LET r == process_file(scanned[idx], prof[ids[idx]], store, env)
       IN  IF r.raised
           THEN /\ raised' = "process_file"
                /\ pc' = "crashed"
                /\ UNCHANGED <<file_objects, idx, primaries, store>>
           ELSE /\ file_objects' = Append(file_objects, r.obj)
                /\ idx' = idx + 1
                /\ primaries' = [primaries EXCEPT ![ids[idx]] = Append(@, Primary(r.obj))]
                /\ store' = update(store, r.obj)
                /\ UNCHANGED <<raised, pc>>
    /\ UNCHANGED <<scan, stages, cleanup, env, prof, fs, dirs, stateFile, threshold, run, scanned,
                   summary, faults, moves, updated, ids, routed, call>>

\* main.py lines 81-82: one iteration of ProcessCommand.execute
ProcessStep ==
    /\ pc = "process" /\ idx <= Len(scanned)
    /\ LET r == process_file(scanned[idx], prof[ids[idx]], store, env)
       IN  IF r.raised
           THEN /\ raised' = "process_file"
                /\ pc' = "crashed"
                /\ UNCHANGED <<file_objects, idx, primaries>>
           ELSE /\ file_objects' = Append(file_objects, r.obj)
                /\ idx' = idx + 1
                /\ primaries' = [primaries EXCEPT ![ids[idx]] = Append(@, Primary(r.obj))]
                /\ UNCHANGED <<raised, pc>>
    /\ UNCHANGED <<scan, stages, cleanup, env, prof, fs, dirs, stateFile, threshold, run, store, scanned,
                   summary, faults, moves, updated, ids, routed, call>>

\* main.py lines 81-83 leaving the loop at any iteration
ProcessDone_early ==
    /\ pc = "process"
    /\ pc' = "organize_start"
    /\ stages' = Append(stages, "process")
    /\ UNCHANGED <<scan, primaries, cleanup, env, prof, fs, dirs, stateFile, threshold, run, store, scanned,
                   file_objects, idx, summary, faults, raised, moves, updated, ids,
                   routed, call>>

\* main.py lines 182-183: OrganizeCommand is built from the processed records
ProcessDone ==
    /\ pc = "process" /\ idx > Len(scanned)
    /\ pc' = "organize_start"
    /\ stages' = Append(stages, "process")
    /\ UNCHANGED <<scan, primaries, cleanup, env, prof, fs, dirs, stateFile, threshold, run, store, scanned,
                   file_objects, idx, summary, faults, raised, moves, updated, ids,
                   routed, call>>

\* main.py lines 99-104: one iteration of the Learning Store update loop
UpdateStep ==
    /\ pc = "update" /\ idx <= Len(file_objects)
    /\ IF Cur.errors # <<>> \/ Cur.confidence_score < threshold
       THEN UNCHANGED <<store, updated>>
       ELSE /\ store' = update(store, Cur)
            /\ updated' = updated \cup {idx}
    /\ idx' = idx + 1
    /\ UNCHANGED <<scan, primaries, stages, cleanup, env, prof, fs, dirs, stateFile, threshold, pc, run, scanned,
                   file_objects, summary, faults, raised, moves, ids, routed, call>>

\* main.py line 105: the store is saved
SaveStep ==
    /\ pc = "update" /\ idx > Len(file_objects)
    /\ stateFile' = save(store)
    /\ pc' = "done"
    /\ stages' = stages \o <<"update", "persist">>
    /\ UNCHANGED <<scan, primaries, cleanup, env, prof, fs, dirs, threshold, run, store, scanned,
                   file_objects, idx, summary, faults, raised, moves, updated, ids,
                   routed, call>>

\* the program is started again on the same root with the same configuration
NextRun ==
    /\ pc = "done" /\ run < MaxRuns
    /\ run' = run + 1
    /\ pc' = "load"
    /\ store' = EmptyStore
    /\ scanned' = <<>>
    /\ file_objects' = <<>>
    /\ ids' = <<>>
    /\ routed' = <<>>
    /\ updated' = {}
    /\ idx' = 1
    /\ summary' = [moved |-> 0, staged |-> 0]
    /\ stages' = <<>>
    /\ UNCHANGED <<scan, primaries, cleanup, env, prof, fs, dirs, stateFile, threshold, faults, raised, moves, call>>

----------------------------------------------------------------------------
(* The trees the pipeline is run on: at most MaxFiles files of one group of *)
(* Catalog                                                                 *)

Profile(mime, fails, meta, content, terms) ==
    [magic_mime |-> mime, magic_fails |-> fails, tika_meta |-> meta,
     tika_fails |-> fails, content |-> content, readable |-> ~fails,
     tfidf_terms |-> terms, tfidf_mean |-> 707]

P(d, stem, suffix) == [dir |-> d, name |-> <<stem, suffix>>]

Catalog ==
    <<  \* two text files of the same name in different directories
        [path |-> P(<<"in">>, "notes", ".txt"),
         profile |-> Profile("text/plain", FALSE, <<>>, <<"project", "notes">>,
                             <<"notes", "project">>)],
        [path |-> P(<<"in2">>, "notes", ".txt"),
         profile |-> Profile("text/plain", FALSE, <<>>, <<"project", "notes">>,
                             <<"notes", "project">>)],
        \* a .png whose bytes libmagic does not recognise, without text or metadata
        [path |-> P(<<"in">>, "pic", ".png"),
         profile |-> Profile("application/octet-stream", FALSE, <<>>, <<>>, <<>>)],
        \* the same with a metadata title
        [path |-> P(<<"in">>, "scan", ".png"),
         profile |-> Profile("application/octet-stream", FALSE,
                             << <<"title", "report">> >>, <<>>, <<>>)],
        \* a zero-byte file with an unrecognized extension
        [path |-> P(<<"in">>, "mystery", ".bin"),
         profile |-> Profile("application/octet-stream", FALSE, <<>>, <<>>, <<>>)],
        \* a file that cannot be opened
        [path |-> P(<<"in">>, "locked", ".dat"),
         profile |-> Profile("application/octet-stream", TRUE, <<>>, <<>>, <<>>)],
        \* an image that cannot be opened
        [path |-> P(<<"in">>, "locked", ".png"),
         profile |-> Profile("image/png", TRUE, <<>>, <<>>, <<>>)],
        \* an empty text file that already lies in a category directory
        [path |-> P(<<"Documents", "Text">>, "notes", ".txt"),
         profile |-> Profile("text/plain", FALSE, <<>>, <<>>, <<>>)] >>

\* the files of Catalog that can meet: the text files named notes.txt, the
\* .png files, the files of unknown type, and one file of each kind
CatalogGroups == {{1, 2, 8}, {3, 4, 7}, {5, 6}, {1, 3, 5}}

Trees ==
    {T \in SUBSET (1..Len(Catalog)) :
        Cardinality(T) <= MaxFiles /\ \E G \in CatalogGroups : T \subseteq G}

DirsOf(files) == UNION {WithParents(q.dir) : q \in DOMAIN files}

EmptyData == [k \in {} |-> EmptyTable]

StateFiles ==
    { [kind |-> "missing", data |-> EmptyData],
      [kind |-> "invalid_json", data |-> EmptyData],
      [kind |-> "not_object", data |-> EmptyData],
      save(EmptyStore),
      [kind |-> "object",
       data |-> ("extension_labels" :>
                    (".png" :> <<[label |-> "design", count |-> 3]>>))],
      \* the file an earlier run wrote after it organized a .png of MIME type
      \* application/octet-stream labelled "photo"
      save(update(EmptyStore,
                  [NewFileObject(P(<<"in">>, "pic", ".png"), "application/octet-stream")
                      EXCEPT !.labels = <<"photo">>])) }

\* no call of remove_empty_directories is under way
NoCleanup ==
    [directories |-> <<>>, removed_count |-> 0, mode |-> <<>>,
     dirs0 |-> {}, files0 |-> <<>>, failed |-> {}]

\* no call of FileScanner.scan is under check
NoScan == [exclude_dirs |-> {}, excluded |-> {}, pending |-> {}]

NoCall ==
    [op |-> "none", arg |-> NewFileObject(P(<<>>, "", ""), ""),
     limit |-> DefaultLimit, result |-> [labels |-> <<>>, boost |-> 0],
     prev_op |-> "none", prev_arg |-> NewFileObject(P(<<>>, "", ""), "")]

Init ==
    /\ env \in SUBSET {"magic", "tika", "tfidf"}
    /\ \E T \in Trees :
          /\ prof = [id \in T |-> Catalog[id].profile]
          /\ fs = [q \in {Catalog[id].path : id \in T} |->
                      CHOOSE id \in T : Catalog[id].path = q]
          /\ dirs = UNION {WithParents(Catalog[id].path.dir) : id \in T}
    /\ stateFile \in StateFiles
    /\ threshold = CONFIDENCE_THRESHOLD
    /\ pc = "load"
    /\ run = 1
    /\ store = EmptyStore
    /\ scanned = <<>>
    /\ file_objects = <<>>
    /\ idx = 1
    /\ summary = [moved |-> 0, staged |-> 0]
    /\ faults = 0
    /\ raised = ""
    /\ moves = <<>>
    /\ updated = {}
    /\ ids = <<>>
    /\ routed = <<>>
    /\ call = NoCall
    /\ cleanup = NoCleanup
    /\ stages = <<>>
    /\ primaries = [id \in DOMAIN prof |-> <<>>]
    /\ scan = NoScan

Next ==
    \/ LoadStep
    \/ CleanupStep
    \/ ScanStep
    \/ ProcessStep
    \/ ProcessDone
    \/ organize_files
    \/ UpdateStep
    \/ SaveStep
    \/ NextRun

Spec == Init /\ [][Next]_vars

----------------------------------------------------------------------------
(* OrganizeCommand.execute on any batch of records: the records are drawn  *)
(* from OrgRecords, each one's file is on disk at its path, and the        *)
(* threshold is one of Thresholds.                                         *)

OrgPaths ==
    {P(<<"in">>, "a", ".txt"), P(<<"in2">>, "a", ".txt"),
     P(<<"Documents", "Text">>, "a", ".txt")}

OrgKinds == {<<"text/plain", <<>>>>, <<"application/octet-stream", <<"report">>>>}

OrgRecords ==
    {[NewFileObject(q, k[1]) EXCEPT !.labels = k[2], !.confidence_score = c,
                                    !.errors = e] :
        q \in OrgPaths, k \in OrgKinds, c \in {0, 69, 70}, e \in {<<>>, <<"err">>}}
    \cup
    \* the record process_file returns for a file of unknown type whose text is
    \* "x/../../../outside notes"
    {[NewFileObject(P(<<"in">>, "a", ".txt"), "application/octet-stream")
         EXCEPT !.labels = <<"x/../../../outside", "notes">>, !.confidence_score = 70]}

Batches ==
    {b \in UNION {[1..n -> OrgRecords] : n \in 0..MaxFiles} :
        \A i, j \in 1..Len(b) : b[i].path = b[j].path => i = j}

Thresholds == {0, CONFIDENCE_THRESHOLD}

BlankProfile == Profile("", FALSE, <<>>, <<>>, <<>>)

InitOrg ==
    /\ env = {}
    /\ file_objects \in Batches
    /\ prof = [k \in 1..Len(file_objects) |-> BlankProfile]
    /\ fs = [q \in {file_objects[k].path : k \in 1..Len(file_objects)} |->
                CHOOSE k \in 1..Len(file_objects) : file_objects[k].path = q]
    /\ dirs = DirsOf(fs)
    /\ ids = [k \in 1..Len(file_objects) |-> k]
    /\ scanned = [k \in 1..Len(file_objects) |-> file_objects[k].path]
    /\ stateFile = [kind |-> "missing", data |-> EmptyData]
    /\ threshold \in Thresholds
    /\ pc = "organize_start"
    /\ run = 1
    /\ store = EmptyStore
    /\ idx = 1
    /\ summary = [moved |-> 0, staged |-> 0]
    /\ faults = 0
    /\ raised = ""
    /\ moves = <<>>
    /\ updated = {}
    /\ routed = <<>>
    /\ call = NoCall
    /\ cleanup = NoCleanup
    /\ stages = <<>>
    /\ primaries = <<>>
    /\ scan = NoScan

NextOrg ==
    \/ organize_files
    \/ UpdateStep
    \/ SaveStep

SpecOrg == InitOrg /\ [][NextOrg]_vars

----------------------------------------------------------------------------
(* The Learning Store's API called on any store of StoreInputs *)

StoreLabels == {"design", "report", "photo"}

Dicts ==
    {d \in UNION {[1..n -> [label : StoreLabels, count : {1, MaxCount}]] : n \in 0..3} :
        \A i, j \in 1..Len(d) : d[i].label = d[j].label => i = j}

StoreInputs ==
    {[extension_labels |-> IF d = <<>> THEN EmptyTable ELSE (".png" :> d),
      mime_labels |-> m] :
        d \in Dicts,
        m \in {EmptyTable, ("image/png" :> <<[label |-> "photo", count |-> 1]>>),
               \* a count whose double is at the cap of the boost
               ("image/png" :> <<[label |-> "photo", count |-> 10]>>)}}

StoreRecords ==
    {[NewFileObject(q, GuessType(q)) EXCEPT !.labels = l] :
        q \in {P(<<"in">>, "pic", ".png"), P(<<"in">>, "PIC", ".PNG"),
               P(<<"in">>, "doc", ".txt")},
        l \in {<<"notes">>, <<"photo", "notes">>}}
    \cup {NewFileObject(P(<<"in">>, "pic", ".png"), "image/png")}

InitStore ==
    /\ store \in StoreInputs
    /\ call = NoCall
    /\ cleanup = NoCleanup
    /\ stages = <<>>
    /\ primaries = <<>>
    /\ scan = NoScan
    /\ pc = "api"
    /\ idx = 1
    /\ env = {}
    /\ prof = <<>>
    /\ fs = <<>>
    /\ dirs = {}
    /\ stateFile = [kind |-> "missing", data |-> EmptyData]
    /\ threshold = CONFIDENCE_THRESHOLD
    /\ run = 1
    /\ scanned = <<>>
    /\ file_objects = <<>>
    /\ summary = [moved |-> 0, staged |-> 0]
    /\ faults = 0
    /\ raised = ""
    /\ moves = <<>>
    /\ updated = {}
    /\ ids = <<>>
    /\ routed = <<>>

\* a caller calls store.update(record)
StoreUpdate ==
    /\ pc = "api" /\ idx <= MaxUpdates
    /\ \E r \in StoreRecords :
          /\ store' = update(store, r)
          /\ call' = [NoCall EXCEPT !.op = "update", !.arg = r]
    /\ idx' = idx + 1
    /\ UNCHANGED <<scan, primaries, stages, cleanup, env, prof, fs, dirs, stateFile, threshold, pc, run, scanned,
                   file_objects, summary, faults, raised, moves, updated, ids, routed>>

Limits == {1, DefaultLimit}

\* a caller calls store.suggest_labels(record, limit); the calls of one
\* behaviour end with it, as it leaves the store as it is
StoreSuggest ==
    /\ pc = "api"
    /\ pc' = "api_done"
    /\ \E r \in StoreRecords, limit \in Limits :
          call' = [op |-> "suggest_labels", arg |-> r, limit |-> limit,
                   result |-> suggest_labels(store, r, limit),
                   prev_op |-> IF call.op = "update" THEN "update" ELSE "none",
                   prev_arg |-> IF call.op = "update" THEN call.arg ELSE NoCall.arg]
    /\ UNCHANGED <<scan, primaries, stages, cleanup, env, prof, fs, dirs, stateFile, threshold, run, store, scanned,
                   file_objects, idx, summary, faults, raised, moves, updated, ids,
                   routed>>

NextStore ==
    \/ StoreUpdate
    \/ StoreSuggest

SpecStore == InitStore /\ [][NextStore]_vars

----------------------------------------------------------------------------
(* CleanupEngine.remove_empty_directories, one loop iteration at a time, on *)
(* any tree of CleanDirs and CleanFiles in which at most MaxFaults          *)
(* directories deny one access. Here dirs holds root itself (<<>>) too.     *)

\* what a directory's permission bits deny to the process
Modes == {"rwx", "no_read", "no_search", "no_write"}

Parent(d) == SubSeq(d, 1, Len(d) - 1)

\* line 39: any(directory.iterdir()) is false
IsEmpty_ignoring_subdirectories(ds, files, d) == ~HasFile(files, d)

IsEmpty(ds, files, d) == ~HasFile(files, d) /\ ~HasSubdir(ds, d)

\* line 32, root.rglob("*"): the directories it yields. It never yields root,
\* and it lists nothing below a directory it may not read.
Listed(ds, mode) ==
    {d \in ds : Len(d) > 0 /\ \A k \in 0..(Len(d) - 1) : mode[SubSeq(d, 1, k)] # "no_read"}

\* line 32, path.is_dir(): os.stat of an entry of a directory that may be read
\* but not searched raises PermissionError, which is_dir does not swallow
ListingRaises(ds, files, mode) ==
    \E d \in ds :
        /\ mode[d] = "no_search"
        /\ ~IsEmpty(ds, files, d)
        /\ \A k \in 0..(Len(d) - 1) : mode[SubSeq(d, 1, k)] # "no_read"

\* lines 31-35 with the sort ascending
Directories_shallowest_first(ds, mode) ==
    {s \in Orderings(Listed(ds, mode)) :
        \A i, j \in 1..Len(s) : i < j => Len(s[i]) <= Len(s[j])}

\* lines 31-35: the listed directories, longest path first; directories of
\* equal depth stay in rglob's order, which is the file system's
Directories(ds, mode) ==
    {s \in Orderings(Listed(ds, mode)) :
        \A i, j \in 1..Len(s) : i < j => Len(s[i]) >= Len(s[j])}

Directory == cleanup.directories[idx]

\* lines 30-35
CleanupList ==
    /\ pc = "cleanup_list"
    /\ IF ListingRaises(dirs, fs, cleanup.mode)
       THEN /\ raised' = "remove_empty_directories"
            /\ pc' = "crashed"
            /\ UNCHANGED <<cleanup, idx>>
       ELSE /\ \E s \in Directories(dirs, cleanup.mode) :
                  cleanup' = [cleanup EXCEPT !.directories = s, !.removed_count = 0]
            /\ idx' = 1
            /\ pc' = "cleanup_sweep"
            /\ raised' = raised
    /\ UNCHANGED <<scan, primaries, stages, env, prof, fs, dirs, stateFile, threshold, run, store,
                   scanned, file_objects, summary, faults, moves, updated, ids,
                   routed, call>>

\* lines 37-39: the directory has an entry
CleanupKeep ==
    /\ pc = "cleanup_sweep" /\ idx <= Len(cleanup.directories)
    /\ cleanup.mode[Directory] # "no_read"
    /\ ~IsEmpty(dirs, fs, Directory)
    /\ idx' = idx + 1
    /\ UNCHANGED <<scan, primaries, stages, cleanup, env, prof, fs, dirs, stateFile, threshold, pc,
                   run, store, scanned, file_objects, summary, faults, raised, moves,
                   updated, ids, routed, call>>

\* lines 37-42: the directory is empty and is removed
CleanupRemove ==
    /\ pc = "cleanup_sweep" /\ idx <= Len(cleanup.directories)
    /\ cleanup.mode[Directory] # "no_read"
    /\ IsEmpty(dirs, fs, Directory)
    /\ cleanup.mode[Parent(Directory)] # "no_write"
    /\ dirs' = dirs \ {Directory}
    /\ cleanup' = [cleanup EXCEPT !.removed_count = @ + 1]
    /\ idx' = idx + 1
    /\ UNCHANGED <<scan, primaries, stages, env, prof, fs, stateFile, threshold, pc, run, store,
                   scanned, file_objects, summary, faults, raised, moves, updated,
                   ids, routed, call>>

\* lines 39-44: iterdir on a directory that may not be read, or rmdir in a
\* parent that may not be written, raises PermissionError; it is logged
CleanupPermissionError ==
    /\ pc = "cleanup_sweep" /\ idx <= Len(cleanup.directories)
    /\ \/ cleanup.mode[Directory] = "no_read"
       \/ /\ IsEmpty(dirs, fs, Directory)
          /\ cleanup.mode[Parent(Directory)] = "no_write"
    /\ cleanup' = [cleanup EXCEPT !.failed = @ \cup {Directory}]
    /\ idx' = idx + 1
    /\ UNCHANGED <<scan, primaries, stages, env, prof, fs, dirs, stateFile, threshold, pc, run, store,
                   scanned, file_objects, summary, faults, raised, moves, updated,
                   ids, routed, call>>

\* line 45
CleanupReturn ==
    /\ pc = "cleanup_sweep" /\ idx > Len(cleanup.directories)
    /\ pc' = "cleanup_done"
    /\ UNCHANGED <<scan, primaries, stages, cleanup, env, prof, fs, dirs, stateFile, threshold, run,
                   store, scanned, file_objects, idx, summary, faults, raised, moves,
                   updated, ids, routed, call>>

CleanDirs == {<<"a">>, <<"a", "b">>, <<"a", "b", "c">>, <<"e">>, <<"n">>}

CleanFiles ==
    {P(<<>>, "f", ".txt"), P(<<"a">>, "f", ".txt"), P(<<"a", "b">>, "f", ".txt"),
     P(<<"n">>, "f", ".txt")}

CleanTrees == {ds \in SUBSET CleanDirs : \A d \in ds : WithParents(d) \subseteq ds}

InitCleanup ==
    /\ \E ds \in CleanTrees :
          /\ dirs = ds \cup {<<>>}
          /\ \E F \in SUBSET {q \in CleanFiles : q.dir \in ds \cup {<<>>}} :
                /\ Cardinality(F) <= MaxFiles
                /\ fs = [q \in F |-> 1]
    /\ \E denied \in SUBSET dirs :
          /\ Cardinality(denied) <= MaxFaults
          /\ \E m \in [dirs -> Modes] :
                /\ \A d \in dirs : m[d] # "rwx" <=> d \in denied
                /\ cleanup = [NoCleanup EXCEPT !.mode = m, !.dirs0 = dirs, !.files0 = fs]
    /\ pc = "cleanup_list"
    /\ idx = 1
    /\ env = {}
    /\ prof = <<>>
    /\ stateFile = [kind |-> "missing", data |-> EmptyData]
    /\ threshold = CONFIDENCE_THRESHOLD
    /\ run = 1
    /\ store = EmptyStore
    /\ scanned = <<>>
    /\ file_objects = <<>>
    /\ summary = [moved |-> 0, staged |-> 0]
    /\ faults = 0
    /\ raised = ""
    /\ moves = <<>>
    /\ updated = {}
    /\ ids = <<>>
    /\ routed = <<>>
    /\ call = NoCall
    /\ stages = <<>>
    /\ primaries = <<>>
    /\ scan = NoScan

NextCleanup ==
    \/ CleanupList
    \/ CleanupKeep
    \/ CleanupRemove
    \/ CleanupPermissionError
    \/ CleanupReturn

SpecCleanup == InitCleanup /\ [][NextCleanup]_vars

----------------------------------------------------------------------------
(* OrganizationEngine.determine_category called on any record of CatRecords *)

CatMimes ==
    {"image/png", "video/mp4", "audio/mpeg", "application/pdf", "text/plain",
     "text/x-python", "application/octet-stream"}

CatSuffixes == {".py", ".PY", ".txt", ".png", ".bin"}

CatRecords ==
    {[NewFileObject(P(<<"in">>, "x", sfx), mime) EXCEPT !.labels = l] :
        sfx \in CatSuffixes, mime \in CatMimes,
        l \in {<<>>, <<"report">>, <<"photo", "notes">>}}

InitCat ==
    /\ file_objects \in {<<r>> : r \in CatRecords}
    /\ pc = "categorize"
    /\ routed = <<>>
    /\ idx = 1
    /\ env = {}
    /\ prof = <<>>
    /\ fs = <<>>
    /\ dirs = {}
    /\ stateFile = [kind |-> "missing", data |-> EmptyData]
    /\ threshold = CONFIDENCE_THRESHOLD
    /\ run = 1
    /\ store = EmptyStore
    /\ scanned = <<>>
    /\ summary = [moved |-> 0, staged |-> 0]
    /\ faults = 0
    /\ raised = ""
    /\ moves = <<>>
    /\ updated = {}
    /\ ids = <<>>
    /\ call = NoCall
    /\ cleanup = NoCleanup
    /\ stages = <<>>
    /\ primaries = <<>>
    /\ scan = NoScan

\* a caller calls engine.determine_category(record)
Categorize ==
    /\ pc = "categorize"
    /\ routed' = <<determine_category(file_objects[1])>>
    /\ pc' = "categorized"
    /\ UNCHANGED <<scan, primaries, stages, cleanup, env, prof, fs, dirs, stateFile, threshold, run,
                   store, scanned, file_objects, idx, summary, faults, raised, moves,
                   updated, ids, call>>

NextCat == Categorize

SpecCat == InitCat /\ [][NextCat]_vars

----------------------------------------------------------------------------
(* The learning feedback loop: repeated pipeline runs on an unchanged set  *)
(* of files with a learning state file left by earlier use.  No optional   *)
(* backend is installed, so the MIME type is guessed from the name and the *)
(* content is what read_text returns.                                      *)

LoopFile(stem, suffix, content) ==
    [path |-> P(<<"in">>, stem, suffix),
     profile |-> Profile("", FALSE, <<>>, content, <<>>)]

LoopCatalog ==
    <<  \* empty image files: their label is a placeholder, open to suggestions
        LoopFile("x", ".jpg", <<>>),
        LoopFile("y1", ".jpeg", <<>>),
        LoopFile("y2", ".jpeg", <<>>),
        LoopFile("y3", ".jpeg", <<>>),
        \* files whose label comes from their text
        LoopFile("a1", ".jpeg", <<"alpha">>),
        LoopFile("a2", ".jpeg", <<"alpha">>),
        LoopFile("a3", ".jpeg", <<"alpha">>),
        LoopFile("a4", ".jpeg", <<"alpha">>),
        LoopFile("b1", ".jpg", <<"bravo">>),
        LoopFile("b2", ".jpg", <<"bravo">>) >>

LoopTrees == {1..Len(LoopCatalog), 1..Len(LoopCatalog) \ {4}, {1, 5, 9}}

Counts(a, b) == <<[label |-> "alpha", count |-> a], [label |-> "bravo", count |-> b]>>

LoopStateFiles ==
    { [kind |-> "missing", data |-> EmptyData],
      save([extension_labels |-> (".jpg" :> Counts(1, 1)) @@ (".jpeg" :> Counts(1, 2)),
            mime_labels |-> EmptyTable]),
      save([extension_labels |-> (".jpg" :> Counts(2, 1)) @@ (".jpeg" :> Counts(1, 2)),
            mime_labels |-> EmptyTable]) }

InitLoop ==
    /\ env = {}
    /\ \E T \in LoopTrees :
          /\ prof = [id \in T |-> LoopCatalog[id].profile]
          /\ fs = [q \in {LoopCatalog[id].path : id \in T} |->
                      CHOOSE id \in T : LoopCatalog[id].path = q]
          /\ primaries = [id \in T |-> <<>>]
    /\ scan = NoScan
    /\ dirs = {<<"in">>}
    /\ stateFile \in LoopStateFiles
    /\ threshold = CONFIDENCE_THRESHOLD
    /\ pc = "load"
    /\ run = 1
    /\ store = EmptyStore
    /\ scanned = <<>>
    /\ file_objects = <<>>
    /\ idx = 1
    /\ summary = [moved |-> 0, staged |-> 0]
    /\ faults = 0
    /\ raised = ""
    /\ moves = <<>>
    /\ updated = {}
    /\ ids = <<>>
    /\ routed = <<>>
    /\ call = NoCall
    /\ cleanup = NoCleanup
    /\ stages = <<>>

\* main.py lines 176-177 with rglob listing the files in the order they were
\* created (the order of the file ids), one of the orders it can produce
LoopScan ==
    /\ pc = "scan"
    /\ LET S == Scannable(fs, {staging_root})
           order == [k \in 1..Cardinality(S) |->
                        CHOOSE q \in S : Cardinality({r \in S : fs[r] < fs[q]}) = k - 1]
       IN  /\ scanned' = order
           /\ ids' = [k \in 1..Len(order) |-> fs[order[k]]]
    /\ file_objects' = <<>>
    /\ idx' = 1
    /\ pc' = "process"
    /\ stages' = Append(stages, "scan")
    /\ UNCHANGED <<scan, primaries, cleanup, env, prof, fs, dirs, stateFile, threshold, run, store,
                   summary, faults, raised, moves, updated, routed, call>>

\* the program is started again on the same root, up to MaxLoopRuns runs in all
LoopNextRun ==
    /\ pc = "done" /\ run < MaxLoopRuns
    /\ run' = run + 1
    /\ pc' = "load"
    /\ store' = EmptyStore
    /\ scanned' = <<>>
    /\ file_objects' = <<>>
    /\ ids' = <<>>
    /\ routed' = <<>>
    /\ updated' = {}
    /\ idx' = 1
    /\ summary' = [moved |-> 0, staged |-> 0]
    /\ stages' = <<>>
    /\ UNCHANGED <<scan, primaries, cleanup, env, prof, fs, dirs, stateFile, threshold, faults, raised, moves, call>>

NextLoop ==
    \/ LoadStep
    \/ CleanupStep
    \/ LoopScan
    \/ ProcessStep
    \/ ProcessDone
    \/ organize_files
    \/ UpdateStep
    \/ SaveStep
    \/ LoopNextRun

SpecLoop == InitLoop /\ [][NextLoop]_vars

----------------------------------------------------------------------------
(* FileScanner.scan on any tree of ScanTrees with any of ScanExcludes.     *)
(* rglob yields each entry below root once, in an order the file system    *)
(* chooses; the tree holds directories and regular files only.             *)

ScanCatalog ==
    { P(<<"in">>, "notes", ".txt"),
      P(<<>>, "cleanup_report_20261102_174749", ".log"),
      P(<<"in">>, "cleanup_report_1", ".log"),
      P(<<>>, "cleanup_report_1", ".txt"),
      P(<<>>, "cleanup_report_1", ".LOG"),
      P(<<>>, "my_cleanup_report_1", ".log"),
      P(<<>>, ".file_organizer_learning", ".json"),
      P(<<"in">>, "file_organizer_learning", ".json"),
      P(staging_root, "old", ".bin"),
      P(staging_root \o <<"sub">>, "deep", ".bin"),
      P(<<"_UNKNOWN_NEEDS_REVIEW_2">>, "old", ".bin") }

ScanTrees == {T \in SUBSET ScanCatalog : Cardinality(T) <= MaxFiles}

ScanExcludes ==
    { {}, {staging_root}, {<<"in", "..", STAGING_DIR_NAME>>},
      {<<"in">>, staging_root \o <<"sub">>} }

InitScan ==
    /\ env = {}
    /\ \E T \in ScanTrees :
          /\ fs = [q \in T |-> q]
          /\ dirs = UNION {WithParents(q.dir) : q \in T}
    /\ \E X \in ScanExcludes : scan = [NoScan EXCEPT !.exclude_dirs = X]
    /\ prof = <<>>
    /\ stateFile = [kind |-> "missing", data |-> EmptyData]
    /\ threshold = CONFIDENCE_THRESHOLD
    /\ pc = "scan_start"
    /\ run = 1
    /\ store = EmptyStore
    /\ scanned = <<>>
    /\ file_objects = <<>>
    /\ idx = 1
    /\ summary = [moved |-> 0, staged |-> 0]
    /\ faults = 0
    /\ raised = ""
    /\ moves = <<>>
    /\ updated = {}
    /\ ids = <<>>
    /\ routed = <<>>
    /\ call = NoCall
    /\ cleanup = NoCleanup
    /\ stages = <<>>
    /\ primaries = <<>>

\* lines 22-24: the exclusions are resolved and rglob starts
ScanStart ==
    /\ pc = "scan_start"
    /\ scan' = [scan EXCEPT !.excluded = {Resolve(x) : x \in scan.exclude_dirs},
                            !.pending = [kind : {"dir"}, at : dirs]
                                        \cup [kind : {"file"}, at : DOMAIN fs]]
    /\ scanned' = <<>>
    /\ pc' = "scan_loop"
    /\ UNCHANGED <<primaries, stages, cleanup, env, prof, fs, dirs, stateFile, threshold,
                   run, store, file_objects, idx, summary, faults, raised, moves,
                   updated, ids, routed, call>>

\* lines 24-33: one iteration of the loop, on the entry rglob yields next
ScanVisit ==
    /\ pc = "scan_loop"
    /\ \E entry \in scan.pending :
          /\ scan' = [scan EXCEPT !.pending = @ \ {entry}]
          /\ scanned' = IF entry.kind = "dir" THEN scanned
                        ELSE IF Skipped(entry.at, scan.excluded) THEN scanned
                        ELSE Append(scanned, entry.at)
    /\ UNCHANGED <<primaries, stages, cleanup, env, prof, fs, dirs, stateFile, threshold, pc,
                   run, store, file_objects, idx, summary, faults, raised, moves,
                   updated, ids, routed, call>>

\* line 34
ScanReturn ==
    /\ pc = "scan_loop" /\ scan.pending = {}
    /\ pc' = "scan_done"
    /\ UNCHANGED <<scan, primaries, stages, cleanup, env, prof, fs, dirs, stateFile,
                   threshold, run, store, scanned, file_objects, idx, summary, faults,
                   raised, moves, updated, ids, routed, call>>

NextScan ==
    \/ ScanStart
    \/ ScanVisit
    \/ ScanReturn

SpecScan == InitScan /\ [][NextScan]_vars

----------------------------------------------------------------------------
(* The claims *)

Handled == 1..Len(routed)

MovedInCall(k) == \E m \in 1..Len(moves) : moves[m].rec = k /\ moves[m].run = run

\* where file id is on disk now (the empty set when it is gone)
WhereIs(id) == {q \in DOMAIN fs : fs[q] = id}

\* C1: every record organize_files handled that has errors was routed to the
\* staging directory, not to its category directory, whatever its confidence
\* score and the threshold.
C1_ErrorsAlwaysStaged ==
    \A k \in Handled :
        file_objects[k].errors # <<>> =>
            /\ routed[k] = staging_root
            /\ routed[k] # determine_category(file_objects[k])

\* C1 witness: a record with errors and a confidence at or above the threshold
\* has been moved into the staging directory.
C1_Witness ==
    \E k \in Handled :
        /\ file_objects[k].errors # <<>>
        /\ file_objects[k].confidence_score >= threshold
        /\ file_objects[k].confidence_score > 0
        /\ file_objects[k].target_path =
              <<[dir |-> staging_root, name |-> file_objects[k].path.name]>>

\* C2: every record organize_files handled that has no errors was routed to the
\* staging directory when its confidence is below the threshold and to its
\* category directory when its confidence is at or above the threshold.
C2_ThresholdRouting ==
    \A k \in Handled :
        file_objects[k].errors = <<>> =>
            /\ file_objects[k].confidence_score < threshold =>
                  routed[k] = staging_root
            /\ file_objects[k].confidence_score >= threshold =>
                  routed[k] = determine_category(file_objects[k])

\* C2 witness: of two records without errors, one below the threshold was staged
\* and one exactly at the threshold was categorized.
C2_Witness ==
    \E j, k \in Handled :
        /\ file_objects[j].errors = <<>> /\ file_objects[k].errors = <<>>
        /\ file_objects[j].confidence_score < threshold
        /\ routed[j] = staging_root
        /\ file_objects[k].confidence_score = threshold
        /\ routed[k] = determine_category(file_objects[k])
        /\ routed[k] # staging_root

\* C3: with no I/O failure at all, a run that follows a completed run moves no
\* file: every physical move belongs to the first run.
C3_SecondRunMovesNothing ==
    faults = 0 => \A m \in 1..Len(moves) : moves[m].run = 1

\* C4: a record counted into the Learning Store has no errors, was not staged
\* and its file is in its category destination.
C4_UpdateOnlyOrganized ==
    \A k \in updated :
        /\ file_objects[k].errors = <<>>
        /\ ~IsStaged(file_objects[k], threshold)
        /\ Destination(file_objects[k], threshold) \in WhereIs(ids[k])

\* C5: no exception escapes process_file.
C5_ProcessFileNeverRaises == raised # "process_file"

\* C6: organize_files is never aborted by a failure on one record.
C6_BatchNeverAborts == raised # "organize_files"

\* C7: when organize_files has returned, every file that was under root before
\* the call is still under root: none was overwritten.
C7_NoFileLost ==
    pc \in {"update", "done"} => \A id \in DOMAIN prof : WhereIs(id) # {}

\* C8: LearningStore.load never raises.
C8_LoadNeverFails == raised # "LearningStore.load"

AfterUpdate ==
    /\ call.op = "suggest_labels"
    /\ call.limit = DefaultLimit
    /\ call.prev_op = "update"
    /\ call.prev_arg.labels # <<>>
    /\ Suffix(call.arg.path) = Suffix(call.prev_arg.path)
    /\ call.arg.mime_type = call.prev_arg.mime_type

Combined(l) ==
    DictGet(TableGet(store.extension_labels, Suffix(call.arg.path)), l)
    + DictGet(TableGet(store.mime_labels, call.arg.mime_type), l)

Candidates == {l \in StoreLabels \cup {"notes"} : Combined(l) > 0}

\* C9 as stated: suggest_labels right after update(record), for the same
\* extension and MIME type, returns the record's first label with a boost > 0.
C9_UpdateThenSuggest ==
    AfterUpdate =>
        /\ call.prev_arg.labels[1] \in Range(call.result.labels)
        /\ call.result.boost > 0

\* C9 amended: the boost is > 0, and the suggestions contain the record's first
\* label lower-cased whenever fewer than `limit` other labels have a combined
\* count at least that of this label.
C9_UpdateThenSuggestAmended ==
    AfterUpdate =>
        LET primary == Lower(call.prev_arg.labels[1])
            rivals == {l \in Candidates \ {primary} : Combined(l) >= Combined(primary)}
        IN  /\ call.result.boost > 0
            /\ Cardinality(rivals) < DefaultLimit =>
                  primary \in Range(call.result.labels)

\* C9 witness: after update of a record of pic.PNG labelled "notes",
\* suggest_labels for pic.png chose three of four candidates, "notes" among them.
C9_Witness ==
    /\ AfterUpdate
    /\ call.prev_arg.labels[1] = "notes"
    /\ call.prev_arg.path.name[2] = ".PNG"
    /\ call.arg.path.name[2] = ".png"
    /\ Cardinality(Candidates) = 4
    /\ Len(call.result.labels) = 3
    /\ "notes" \in Range(call.result.labels)
    /\ call.result.boost > 0

\* C10: when organize_files has returned, target_path is set exactly for the
\* records whose file the call moved; an unset one's file is at its original
\* path and a set one's file is at target_path.
C10_TargetPathIffMoved ==
    pc \in {"update", "done"} =>
        \A k \in 1..Len(file_objects) :
            /\ file_objects[k].target_path # <<>> <=> MovedInCall(k)
            /\ file_objects[k].target_path = <<>> =>
                  file_objects[k].path \in WhereIs(ids[k])
            /\ file_objects[k].target_path # <<>> =>
                  file_objects[k].target_path[1] \in WhereIs(ids[k])

SubtreeHasFile(files, d) == \E q \in DOMAIN files : IsUnder(q.dir, d)

NoDenied == \A d \in DOMAIN cleanup.mode : cleanup.mode[d] = "rwx"

Removed == cleanup.dirs0 \ dirs

\* C11: when no directory denies an access, remove_empty_directories visits
\* every directory below root once, deepest first, and when it returns exactly
\* the directories below root whose subtree held no file are gone, and
\* removed_count is their number.
C11_DeepestFirstSweep ==
    (NoDenied /\ pc \in {"cleanup_sweep", "cleanup_done"}) =>
        /\ Range(cleanup.directories) = cleanup.dirs0 \ {<<>>}
        /\ Len(cleanup.directories) = Cardinality(cleanup.dirs0 \ {<<>>})
        /\ \A i, j \in 1..Len(cleanup.directories) :
              i < j => Len(cleanup.directories[i]) >= Len(cleanup.directories[j])
        /\ cleanup.removed_count = Cardinality(Removed)
        /\ pc = "cleanup_done" =>
              Removed = {d \in cleanup.dirs0 \ {<<>>} : ~SubtreeHasFile(cleanup.files0, d)}

\* C11 witness: a/b/c, a/b and a held no file and are all gone after one call,
\* a and a/b only because their child went first; n holds a file and is there.
C11_Witness ==
    /\ pc = "cleanup_done" /\ NoDenied
    /\ {<<"a">>, <<"a", "b">>, <<"a", "b", "c">>} \subseteq Removed
    /\ <<"n">> \in dirs /\ HasFile(fs, <<"n">>)
    /\ cleanup.removed_count >= 3

\* C12: remove_empty_directories never removes root, never removes a directory
\* with a file somewhere in its subtree, and leaves every file where it was.
C12_CleanupIsSafe ==
    cleanup.dirs0 # {} =>
        /\ <<>> \in dirs
        /\ fs = cleanup.files0
        /\ \A d \in cleanup.dirs0 : SubtreeHasFile(cleanup.files0, d) => d \in dirs

\* C12 witness: the call returned having removed a/b/c while a and a/b, whose
\* only file is a/b/f.txt, and root, which holds no file itself, are there.
C12_Witness ==
    /\ pc = "cleanup_done"
    /\ <<"a", "b", "c">> \in Removed
    /\ DOMAIN fs = {P(<<"a", "b">>, "f", ".txt")}
    /\ {<<>>, <<"a">>, <<"a", "b">>} \subseteq dirs

\* C13: a permission failure on one directory never ends the call; the failed
\* directories are not counted, and every directory without a file in its
\* subtree that did not fail and has no failed directory below it is removed
\* and counted.
C13_SweepContinues ==
    /\ raised # "remove_empty_directories"
    /\ pc = "cleanup_done" =>
          /\ cleanup.removed_count = Cardinality(Removed)
          /\ cleanup.failed \cap Removed = {}
          /\ \A d \in cleanup.dirs0 \ {<<>>} :
                (/\ ~SubtreeHasFile(cleanup.files0, d)
                 /\ ~\E x \in cleanup.failed : IsUnder(x, d))
                => d \in Removed

StageOrder == <<"load", "cleanup", "scan", "process", "organize", "update", "persist">>

IsPrefix(a, b) == Len(a) <= Len(b) /\ a = SubSeq(b, 1, Len(a))

MovesOfRun == {m \in 1..Len(moves) : moves[m].run = run}

\* C14: the stages a run has completed are an initial part of Load, Cleanup,
\* Scan, Process, Organize, update, persist, all of it when the run has ended
\* normally; a file is moved only after every scanned file was processed, the
\* store is updated only after organize_files returned, and what was saved is
\* the store after all updates.
C14_StagesInOrder ==
    /\ IsPrefix(stages, StageOrder)
    /\ pc = "done" => (stages = StageOrder /\ load(stateFile).value = store)
    /\ (MovesOfRun # {} \/ routed # <<>>) =>
          ("process" \in Range(stages) /\ Len(file_objects) = Len(scanned))
    /\ updated # {} => "organize" \in Range(stages)
    /\ "persist" \in Range(stages) => pc = "done"

\* C14 witness: a second run has ended after moving a file and updating the store.
C14_Witness ==
    /\ pc = "done" /\ run = 2
    /\ stages = StageOrder
    /\ MovesOfRun # {}
    /\ updated # {}

\* C15: the records are the scanned paths, one each and in order; each record
\* has at most one move attempt; no file changes its location twice in a run.
C15_OneAttemptPerFile ==
    /\ Len(file_objects) <= Len(scanned)
    /\ \A k \in 1..Len(file_objects) : file_objects[k].path = scanned[k]
    /\ \A j, k \in 1..Len(scanned) : scanned[j] = scanned[k] => j = k
    /\ Len(routed) <= Len(file_objects)
    /\ \A k \in 1..Len(file_objects) :
          Cardinality({m \in MovesOfRun : moves[m].rec = k}) <= 1
    /\ \A id \in DOMAIN prof :
          Cardinality({m \in MovesOfRun : moves[m].id = id}) <= 1

\* the store a later call or run starts from: the instance in memory while a
\* run holds one, the content of the state file otherwise
LearnedOf(at, file, st) ==
    IF at \in {"load", "crashed"}
    THEN IF load(file).raised THEN EmptyStore ELSE load(file).value
    ELSE st

TableGrows(a, b) ==
    \A key \in DOMAIN a :
        /\ key \in DOMAIN b
        /\ \A k \in 1..Len(a[key]) :
              /\ DictHas(b[key], a[key][k].label)
              /\ DictGet(b[key], a[key][k].label) >= a[key][k].count

StoreGrows(a, b) ==
    /\ TableGrows(a.extension_labels, b.extension_labels)
    /\ TableGrows(a.mime_labels, b.mime_labels)

\* C16: in every step of a run and from one run to the next, every key and
\* label of the store stays and no count decreases.
C16_CountsOnlyGrow ==
    [][StoreGrows(LearnedOf(pc, stateFile, store), LearnedOf(pc', stateFile', store'))]_vars

\* C16 witness: the second run has ended and the count of a label under ".txt",
\* a key no initial state file holds, has reached 2.
C16_Witness ==
    /\ pc = "done" /\ run = 2
    /\ updated # {}
    /\ \E k \in 1..Len(TableGet(store.extension_labels, ".txt")) :
          store.extension_labels[".txt"][k].count >= 2
    /\ load(stateFile).value = store

AllLabels == StoreLabels \cup {"notes"}

\* table b is table a with the count of label l under key incremented by 1
\* and everything else, the order of the entries included, as it was
TableBumped(a, b, key, l) ==
    /\ DOMAIN b = DOMAIN a \cup {key}
    /\ \A k \in DOMAIN a \ {key} : b[k] = a[k]
    /\ LET old == TableGet(a, key)
       IN  /\ Len(b[key]) = Len(old) + (IF DictHas(old, l) THEN 0 ELSE 1)
           /\ \A i \in 1..Len(old) :
                 /\ b[key][i].label = old[i].label
                 /\ old[i].label # l => b[key][i].count = old[i].count
           /\ \A x \in AllLabels :
                 DictGet(b[key], x) = DictGet(old, x) + (IF x = l THEN 1 ELSE 0)

\* C17: a call of update leaves the store as it was when the record has no
\* labels; otherwise the count of the record's first label under the record's
\* lower-cased extension and under its MIME type has grown by 1 and nothing
\* else has changed.
C17_UpdateFrame ==
    [][idx' # idx =>
          LET r == call'.arg
          IN  IF r.labels = <<>> THEN store' = store
              ELSE /\ TableBumped(store.extension_labels, store'.extension_labels,
                                  Lower(r.path.name[2]), Lower(r.labels[1]))
                   /\ TableBumped(store.mime_labels, store'.mime_labels,
                                  r.mime_type, Lower(r.labels[1]))]_vars

\* C17 witness: update of PIC.PNG labelled photo, notes was called on a store
\* that held counts for three labels under ".png": photo is now at
\* MaxCount + 1 and notes is not in the store.
C17_Witness ==
    /\ call.op = "update"
    /\ call.arg.path.name[2] = ".PNG"
    /\ call.arg.labels = <<"photo", "notes">>
    /\ ".PNG" \notin DOMAIN store.extension_labels
    /\ Len(TableGet(store.extension_labels, ".png")) = 3
    /\ DictGet(TableGet(store.extension_labels, ".png"), "photo") = MaxCount + 1
    /\ DictGet(TableGet(store.extension_labels, ".png"), "notes") = 0
    /\ DictGet(TableGet(store.mime_labels, "image/png"), "notes") = 0

MaxOf(S) == CHOOSE n \in S : \A m \in S : m <= n

\* C18: suggest_labels returns no label and boost 0 when no label has a count
\* under the record's extension or MIME type; otherwise it returns
\* min(limit, number of candidates) distinct candidates, in descending order
\* of combined count, none with a smaller combined count than a candidate
\* left out, and the boost min(20, 2 x the largest combined count).
C18_SuggestTopLabels ==
    call.op = "suggest_labels" =>
        LET labels == call.result.labels
        IN  IF Candidates = {}
            THEN call.result = [labels |-> <<>>, boost |-> 0]
            ELSE /\ Len(labels) = Min(call.limit, Cardinality(Candidates))
                 /\ Range(labels) \subseteq Candidates
                 /\ \A i, j \in 1..Len(labels) :
                       /\ labels[i] = labels[j] => i = j
                       /\ i < j => Combined(labels[i]) >= Combined(labels[j])
                 /\ \A l \in Candidates \ Range(labels) :
                       \A i \in 1..Len(labels) : Combined(labels[i]) >= Combined(l)
                 /\ call.result.boost =
                       Min(20, 2 * MaxOf({Combined(l) : l \in Candidates}))

\* C18 witness: with limit 1 and three candidates, the label returned is photo,
\* whose extension and MIME counts add up to more than 10, and the boost is 20.
C18_Witness ==
    /\ call.op = "suggest_labels" /\ call.limit = 1
    /\ Cardinality(Candidates) = 3
    /\ call.result.labels = <<"photo">>
    /\ DictGet(TableGet(store.extension_labels, Suffix(call.arg.path)), "photo") > 0
    /\ DictGet(TableGet(store.mime_labels, call.arg.mime_type), "photo") > 0
    /\ Combined("photo") > 10
    /\ store.extension_labels[".png"][1].label # "photo"
    /\ call.result.boost = 20

\* C19: the category determine_category returned is that of the first rule
\* that matches, in the order image, video, audio, pdf, code extension, text,
\* and otherwise Documents/<first label title-cased, or Uncategorized>.
C19_FirstMatchingRule ==
    pc = "categorized" =>
        LET r == file_objects[1]
            category == routed[1]
            image == r.mime_type \in {"image/png"}
            video == r.mime_type = "video/mp4"
            audio == r.mime_type = "audio/mpeg"
            pdf == r.mime_type = "application/pdf"
            code == Lower(r.path.name[2]) \in {".py", ".js", ".ts", ".java", ".go", ".rb"}
            text == r.mime_type \in {"text/plain", "text/x-python"}
        IN  /\ image => category = <<"Media", "Photos">>
            /\ (video /\ ~image) => category = <<"Media", "Videos">>
            /\ (audio /\ ~image /\ ~video) => category = <<"Media", "Audio">>
            /\ (pdf /\ ~image /\ ~video /\ ~audio) => category = <<"Documents", "PDFs">>
            /\ (code /\ ~image /\ ~video /\ ~audio /\ ~pdf) =>
                  category = <<"Code", "Scripts">>
            /\ (text /\ ~image /\ ~video /\ ~audio /\ ~pdf /\ ~code) =>
                  category = <<"Documents", "Text">>
            /\ ~(image \/ video \/ audio \/ pdf \/ code \/ text) =>
                  category = <<"Documents",
                               IF r.labels = <<>> THEN "Uncategorized"
                               ELSE IF r.labels[1] = "report" THEN "Report"
                               ELSE "Photo">>

\* C19 witness: a record of MIME type text/x-python named x.PY went to
\* Code/Scripts, the rule of the extension winning over the rule of text/*.
C19_Witness ==
    /\ pc = "categorized"
    /\ file_objects[1].mime_type = "text/x-python"
    /\ file_objects[1].path.name[2] = ".PY"
    /\ routed[1] = <<"Code", "Scripts">>

\* DefaultStrategy.extract cannot read the file: tika raises, or read_text does
ExtractionFails(id) ==
    IF "tika" \in env THEN prof[id].tika_fails ELSE ~prof[id].readable

\* C20: every record organize_files handled whose file's extraction failed has
\* the failure in its errors and was routed to the staging directory.
C20_ExtractionFailureStaged ==
    \A k \in Handled :
        ExtractionFails(ids[k]) =>
            /\ file_objects[k].errors # <<>>
            /\ routed[k] = staging_root

\* what generate_labels returned for record k of the batch
Generated(k) ==
    LET r == extract_metadata(prof[ids[k]], env)
    IN  generate_labels(r.content, r.metadata, prof[ids[k]], env)

\* extraction and label generation went through for record k and gave no label
NoLabelsProduced(k) ==
    /\ ~extract_metadata(prof[ids[k]], env).raised
    /\ ~Generated(k).raised
    /\ Generated(k).labels = <<>>

RecognizedImage(file_object) ==
    \/ StartsWith(file_object.mime_type, "image/")
    \/ Suffix(file_object.path) \in image_extensions

\* the batch being organized was processed with an empty Learning Store
EmptyStoreRun ==
    /\ pc \in {"organize", "update"}
    /\ ~load(stateFile).raised
    /\ load(stateFile).value = EmptyStore

\* C21 as stated: with an empty Learning Store, a record recognized as an image
\* (by MIME prefix or by extension) for which no labels were produced has the
\* label "photo", a confidence >= 85 and is routed to Media/Photos.
C21_ImagePhotoCategory ==
    EmptyStoreRun =>
        \A k \in Handled :
            RecognizedImage(file_objects[k]) /\ NoLabelsProduced(k) =>
                /\ file_objects[k].labels = <<"photo">>
                /\ file_objects[k].confidence_score >= 85
                /\ routed[k] = <<"Media", "Photos">>

\* C21 amended: such a record has the label "photo" and a confidence >= 85 and
\* is routed to its category, never to staging; the category is Media/Photos
\* when the MIME type has the prefix image/, and is never Media/Photos when the
\* record is an image by its extension only.
C21_ImagePhotoCategoryAmended ==
    EmptyStoreRun =>
        \A k \in Handled :
            RecognizedImage(file_objects[k]) /\ NoLabelsProduced(k) =>
                /\ file_objects[k].labels = <<"photo">>
                /\ file_objects[k].confidence_score >= 85
                /\ routed[k] = determine_category(file_objects[k])
                /\ routed[k] # staging_root
                /\ StartsWith(file_objects[k].mime_type, "image/")
                      <=> routed[k] = <<"Media", "Photos">>

\* C21 witness: pic.png, whose detected MIME type is application/octet-stream,
\* got the label "photo" with confidence 85 and was moved to Documents/Photo.
C21_Witness ==
    /\ EmptyStoreRun
    /\ \E k \in Handled :
          /\ NoLabelsProduced(k)
          /\ file_objects[k].path = P(<<"in">>, "pic", ".png")
          /\ file_objects[k].mime_type = "application/octet-stream"
          /\ file_objects[k].labels = <<"photo">>
          /\ file_objects[k].confidence_score = 85
          /\ file_objects[k].target_path = <<P(<<"Documents", "Photo">>, "pic", ".png")>>

\* record k's file has no content and no metadata, and neither its MIME type
\* nor its extension is one of image, video or audio
EmptyUnknownFile(k) ==
    /\ prof[ids[k]].content = <<>>
    /\ \A j \in 1..Len(prof[ids[k]].tika_meta) : prof[ids[k]].tika_meta[j][2] = ""
    /\ ~StartsWith(file_objects[k].mime_type, "image/")
    /\ ~StartsWith(file_objects[k].mime_type, "video/")
    /\ ~StartsWith(file_objects[k].mime_type, "audio/")
    /\ Suffix(file_objects[k].path) \notin image_extensions

\* what the Learning Store of the run suggests for record k; during
\* organize_files the store is still the one the records were processed with
Suggested(k) == suggest_labels(store, file_objects[k], DefaultLimit)

\* C22 as stated: in any run, a record of a file with empty content, no
\* metadata and no media type has empty labels and confidence 0 and is routed
\* to the staging directory.
C22_EmptyFileStaged ==
    pc = "organize" =>
        \A k \in Handled :
            EmptyUnknownFile(k) =>
                /\ file_objects[k].labels = <<>>
                /\ file_objects[k].confidence_score = 0
                /\ routed[k] = staging_root

\* C22 amended: such a record is routed to the staging directory (threshold
\* above 20); it has empty labels and confidence 0 when the Learning Store
\* suggests nothing for its extension and MIME type or its extraction failed,
\* and otherwise it has the suggested labels and the boost as confidence.
C22_EmptyFileStagedAmended ==
    pc = "organize" /\ threshold > 20 =>
        \A k \in Handled :
            EmptyUnknownFile(k) =>
                /\ routed[k] = staging_root
                /\ IF Suggested(k).labels = <<>> \/ file_objects[k].errors # <<>>
                   THEN /\ file_objects[k].labels = <<>>
                        /\ file_objects[k].confidence_score = 0
                   ELSE /\ file_objects[k].labels = Suggested(k).labels
                        /\ file_objects[k].confidence_score = Suggested(k).boost
                        /\ file_objects[k].confidence_score \in 1..20

\* C22 witness: the zero-byte mystery.bin, processed with a store that has no
\* entry for it, has empty labels and confidence 0 and was moved into the
\* staging directory.
C22_Witness ==
    /\ pc = "organize"
    /\ \E k \in Handled :
          /\ EmptyUnknownFile(k)
          /\ file_objects[k].path = P(<<"in">>, "mystery", ".bin")
          /\ Suggested(k).labels = <<>>
          /\ file_objects[k].errors = <<>>
          /\ file_objects[k].labels = <<>>
          /\ file_objects[k].confidence_score = 0
          /\ file_objects[k].target_path = <<P(staging_root, "mystery", ".bin")>>

\* the labels and confidence of record k before the learning augmentation
Current(k) == MediaOverride(file_objects[k], Generated(k))

Placeholders == {<<"photo">>, <<"video">>, <<"audio">>}

\* the records process_file returned with the store of the run still unchanged
Processed == IF pc \in {"process", "organize"} THEN 1..Len(file_objects) ELSE {}

\* C23: when the Learning Store suggests labels for a record, the record's
\* labels are the suggestions if and only if the labels before augmentation
\* were empty or one of the placeholders (or already equal to the suggestions);
\* any other labels, produced from metadata or content, are kept; and the
\* confidence is min(100, confidence + boost).
C23_LearningAugmentation ==
    \A k \in Processed :
        file_objects[k].errors = <<>> /\ Suggested(k).labels # <<>> =>
            /\ Current(k).labels = <<>> \/ Current(k).labels \in Placeholders
                  => file_objects[k].labels = Suggested(k).labels
            /\ Current(k).labels # <<>> /\ Current(k).labels \notin Placeholders
                  => file_objects[k].labels = Current(k).labels
            /\ file_objects[k].confidence_score
                  = Min(100, Current(k).confidence + Suggested(k).boost)

\* C23 witness: in one run the placeholder "photo" of pic.png was replaced by
\* the learned "design" with confidence 85 + 6, and the metadata label "report"
\* of scan.png was kept with confidence 90 + 6.
C23_Witness ==
    \E j, k \in Processed :
        /\ file_objects[j].errors = <<>> /\ file_objects[k].errors = <<>>
        /\ Current(j).labels = <<"photo">>
        /\ Suggested(j).labels = <<"design">>
        /\ file_objects[j].labels = <<"design">>
        /\ file_objects[j].confidence_score = 91
        /\ Current(k).labels = <<"report">>
        /\ Suggested(k).labels = <<"design">>
        /\ file_objects[k].labels = <<"report">>
        /\ file_objects[k].confidence_score = 96

\* C24: the confidence_score of every record process_file returned lies in
\* [0, 100].
C24_ConfidenceInRange ==
    \A k \in 1..Len(file_objects) :
        /\ file_objects[k].confidence_score >= 0
        /\ file_objects[k].confidence_score <= 100

\* C24 witness: a record whose confidence before augmentation plus the boost
\* exceeds 100 has confidence 100, next to a record with confidence 0.
C24_Witness ==
    \E j, k \in Processed :
        /\ file_objects[k].errors = <<>>
        /\ Suggested(k).labels # <<>>
        /\ Current(k).confidence + Suggested(k).boost > 100
        /\ file_objects[k].confidence_score = 100
        /\ file_objects[j].confidence_score = 0

\* C25: over repeated runs on an unchanged set of files, no file returns to a
\* primary label it had abandoned in an earlier run.
C25_NoOscillation ==
    \A id \in DOMAIN primaries :
        \A i, j, k \in 1..Len(primaries[id]) :
            i < j /\ j < k /\ primaries[id][i] = primaries[id][k]
                => primaries[id][j] = primaries[id][i]

\* the files the contract of scan leaves out
HasExcludedAncestor(q) == \E x \in scan.exclude_dirs : IsUnder(q.dir, Resolve(x))

IsReportLog(q) ==
    /\ q.name[1] \in {"cleanup_report_20261102_174749", "cleanup_report_1"}
    /\ q.name[2] = ".log"

IsLearningState(q) == q.name = <<".file_organizer_learning", ".json">>

\* C26: when scan returns, its list holds exactly the files below root that
\* have no ancestor equal to a resolved member of exclude_dirs, are not named
\* cleanup_report_*.log and are not named .file_organizer_learning.json, each
\* of them once.
C26_ScanExact ==
    pc = "scan_done" =>
        /\ Range(scanned) =
              {q \in DOMAIN fs : ~HasExcludedAncestor(q) /\ ~IsReportLog(q)
                                   /\ ~IsLearningState(q)}
        /\ Cardinality(Range(scanned)) = Len(scanned)

\* C26 witness: with the staging directory excluded in unresolved form
\* (in/../_UNKNOWN_NEEDS_REVIEW), scan of a tree holding
\* _UNKNOWN_NEEDS_REVIEW/sub/deep.bin and cleanup_report_1.LOG returned the
\* latter only.
C26_Witness ==
    /\ pc = "scan_done"
    /\ scan.exclude_dirs = {<<"in", "..", STAGING_DIR_NAME>>}
    /\ P(staging_root \o <<"sub">>, "deep", ".bin") \in DOMAIN fs
    /\ scanned = <<P(<<>>, "cleanup_report_1", ".LOG")>>

\* a directory given relative to root lies inside root
InsideRoot(d) == Resolve(d) = <<>> \/ Resolve(d)[1] # ".."

\* C27: the destination directory of every record organize_files handled lies
\* inside root: it is the staging directory or a directory below root.
C27_DestinationInsideRoot ==
    \A k \in Handled :
        \/ routed[k] = staging_root
        \/ InsideRoot(routed[k]) /\ Resolve(routed[k]) # <<>>

\* the files an earlier run left in the staging directory, with that run
StagedEarlier ==
    {[id |-> moves[m].id, run |-> moves[m].run] : m \in
        {m \in 1..Len(moves) :
            /\ moves[m].run < run
            /\ IsUnder(moves[m].dst.dir, staging_root)
            /\ ~\E n \in (m + 1)..Len(moves) :
                   moves[n].run = moves[m].run /\ moves[n].id = moves[m].id}}

\* C28: a file that an earlier run left in the staging directory is not among
\* the files this run scanned (so it is neither processed nor counted in the
\* Learning Store), and no run after the one that staged it has moved it.
C28_StagedStaysOut ==
    \A s \in StagedEarlier :
        /\ \A k \in 1..Len(ids) : ids[k] # s.id
        /\ \A k \in updated : ids[k] # s.id
        /\ \A n \in 1..Len(moves) : moves[n].id = s.id => moves[n].run <= s.run

\* C28 witness: the second run is over; it scanned and moved another file, and
\* a file staged by the first run still lies in the staging directory.
C28_Witness ==
    /\ run = 2 /\ pc = "done"
    /\ Len(ids) > 0
    /\ \E n \in 1..Len(moves) : moves[n].run = 2
    /\ \E s \in StagedEarlier :
          \E q \in WhereIs(s.id) : IsUnder(q.dir, staging_root)

\* the records whose file lies at its destination in directory kind `staged`
Placed(staged) ==
    {k \in 1..Len(file_objects) :
        /\ IsStaged(file_objects[k], threshold) = staged
        /\ Destination(file_objects[k], threshold) \in WhereIs(ids[k])}

\* C29: when organize_files has returned, summary["moved"] is the number of
\* records whose file lies in its category directory and summary["staged"] the
\* number whose file lies in the staging directory.
C29_SummaryCountsPlaced ==
    pc \in {"update", "done"} =>
        /\ summary.moved = Cardinality(Placed(FALSE))
        /\ summary.staged = Cardinality(Placed(TRUE))

\* what process_file returns for record k's file with the store as loaded at
\* the start of the run, whatever else is in the batch
Alone(k) == process_file(scanned[k], prof[ids[k]], load(stateFile).value, env).obj

\* C30: during the Process stage and until the update loop starts, the
\* Learning Store is the one that was loaded, and the labels and confidence of
\* every record are those its file gets when it is processed alone with that
\* store: they depend neither on the processing order nor on the other files.
C30_ProcessOrderIndependent ==
    pc \in {"process", "organize"} =>
        /\ store = load(stateFile).value
        /\ \A k \in 1..Len(file_objects) :
              /\ file_objects[k].labels = Alone(k).labels
              /\ file_objects[k].confidence_score = Alone(k).confidence_score

\* C30 witness: two files of the same extension were processed in one run with
\* a store that suggests labels for both, the second after the first.
C30_Witness ==
    /\ pc = "organize"
    /\ Len(file_objects) = 2
    /\ Suffix(file_objects[1].path) = Suffix(file_objects[2].path)
    /\ file_objects[1].errors = <<>> /\ file_objects[2].errors = <<>>
    /\ Suggested(1).labels # <<>> /\ Suggested(2).labels # <<>>
    /\ file_objects[1].labels # <<>> /\ file_objects[2].labels # <<>>

====
